---- MODULE Spec2Model ----
(***************************************************************************)
(* treeme.py: walk a directory, write a tree listing (tree.txt) and        *)
(* concatenate the selected files into a bundle (all_texts.txt).           *)
(*                                                                         *)
(* Strings are sequences of one-character strings, so that lower(),        *)
(* Path.suffix, Path.as_posix and fnmatch are computed character by        *)
(* character.  The box-drawing glyphs of the source are written in ASCII:  *)
(*   "|-- " for U+251C U+2500 U+2500 SPACE   (mid branch)                  *)
(*   "+-- " for U+2514 U+2500 U+2500 SPACE   (terminal branch)             *)
(*   "|   " for U+2502 SPACE SPACE SPACE     (vertical continuation)       *)
(* each of them four columns wide, as in the source.                       *)
(***************************************************************************)
EXTENDS Naturals, Sequences, FiniteSets, TLC

\* ------------------------------------------------------------------------
\* Bounds of the model
\* ------------------------------------------------------------------------
\* Entries below the root in the scanned directory before the first run.
MaxNodes == 4
\* Directories a concurrent actor removes during a traversal (SpecRace).
MaxRemovals == 1

\* ------------------------------------------------------------------------
\* Characters and names
\* ------------------------------------------------------------------------
Uppers == <<"A","B","C","D","E","F","G","H","I","J","K","L","M",
            "N","O","P","Q","R","S","T","U","V","W","X","Y","Z">>
Lowers == <<"a","b","c","d","e","f","g","h","i","j","k","l","m",
            "n","o","p","q","r","s","t","u","v","w","x","y","z">>

\* str.lower() on one character
LowerTable ==
    [c \in {Uppers[i] : i \in 1..Len(Uppers)} |->
        Lowers[CHOOSE i \in 1..Len(Uppers) : Uppers[i] = c]]
LowerChar(c) == IF c \in DOMAIN LowerTable THEN LowerTable[c] ELSE c

\* str.lower()
Lower(s) == [i \in 1..Len(s) |-> LowerChar(s[i])]

\* Code points of the characters the model's names use (ASCII), for the
\* comparison of strings that sorted() makes.
Ascii == <<".", "/", "A", "B", "D", "E", "M", "P", "R", "Y", "_",
           "a", "b", "d", "e", "l", "m", "n", "p", "r", "s", "t", "u",
           "v", "x", "y">>
OrdTable ==
    [c \in {Ascii[i] : i \in 1..Len(Ascii)} |->
        CHOOSE i \in 1..Len(Ascii) : Ascii[i] = c]
Ord(c) == OrdTable[c]

\* s < t for Python strings: lexicographic by code point.
RECURSIVE StrLess(_, _)
StrLess(s, t) ==
    IF t = <<>> THEN FALSE
    ELSE IF s = <<>> THEN TRUE
    ELSE IF Head(s) = Head(t) THEN StrLess(Tail(s), Tail(t))
    ELSE Ord(Head(s)) < Ord(Head(t))

\* The names that appear in the scanned directories and in the options.
N_git      == <<".", "g", "i", "t">>
N_idea     == <<".", "i", "d", "e", "a">>
N_dotvenv  == <<".", "v", "e", "n", "v">>
N_venv     == <<"v", "e", "n", "v">>
N_B        == <<"B">>
N_b        == <<"b">>
N_D        == <<"D">>
N_a_py     == <<"a", ".", "p", "y">>
N_A_PY     == <<"A", ".", "P", "Y">>
N_n_md     == <<"n", ".", "m", "d">>
N_README   == <<"R", "E", "A", "D", "M", "E">>
N_l_py     == <<"l", ".", "p", "y">>
N_root     == <<"r">>
N_tree     == <<"t", "r", "e", "e", ".", "t", "x", "t">>
N_bundle   == <<"a", "l", "l", "_", "t", "e", "x", "t", "s", ".", "t", "x", "t">>
E_txt      == <<".", "t", "x", "t">>
E_sh       == <<".", "s", "h">>
E_py       == <<".", "p", "y">>
E_sql      == <<".", "s", "q", "l">>
G_md       == <<"*", ".", "m", "d">>
G_Ba       == <<"B", "/", "a", "*">>

AUTO_EXCLUDES == {N_git, N_idea, N_dotvenv, N_venv}
DEFAULT_EXTS == {E_txt, E_sh, E_py, E_sql}

\* ------------------------------------------------------------------------
\* Path helpers
\* ------------------------------------------------------------------------
\* The index of the last "." of a name, 0 when there is none (str.rfind).
LastDot(name) ==
    IF \E i \in 1..Len(name) : name[i] = "."
    THEN CHOOSE i \in 1..Len(name) :
            name[i] = "." /\ \A j \in (i+1)..Len(name) : name[j] # "."
    ELSE 0

\* Path.suffix: the last dot and what follows it, unless the name starts
\* or ends with that dot.
Suffix(name) ==
    LET i == LastDot(name)
    IN  IF 1 < i /\ i < Len(name) THEN SubSeq(name, i, Len(name)) ELSE <<>>

\* Path.as_posix of a relative path given as its parts: joined with "/".
RECURSIVE AsPosix(_)
AsPosix(parts) ==
    IF parts = <<>> THEN <<>>
    ELSE IF Len(parts) = 1 THEN parts[1]
    ELSE parts[1] \o <<"/">> \o AsPosix(Tail(parts))

\* fnmatch.fnmatch on a POSIX host (normcase is the identity): "*" matches
\* any run of characters, "/" included, "?" one character, anything else
\* itself.  The patterns of the model hold no "[".
RECURSIVE FnMatch(_, _)
FnMatch(s, pat) ==
    IF pat = <<>> THEN s = <<>>
    ELSE IF Head(pat) = "*"
         THEN FnMatch(s, Tail(pat)) \/ (s # <<>> /\ FnMatch(Tail(s), pat))
    ELSE /\ s # <<>>
         /\ (Head(pat) = "?" \/ Head(pat) = Head(s))
         /\ FnMatch(Tail(s), Tail(pat))

\* ------------------------------------------------------------------------
\* The scanned directory
\* ------------------------------------------------------------------------
\* An entry: its name, what it is (p.is_dir(), p.is_file(), p.is_symlink()),
\* whether it can be listed (a directory) or read (a file), and the entry
\* that holds it (0: the root).
Entry(n, k, m, p) == [name |-> n, kind |-> k, mode |-> m, parent |-> p]

\* The entries the scanned directories of the model are drawn from.  A
\* scanned directory is a part of this tree: some of its entries, each with
\* the directories that lead to it.
Universe == <<
    Entry(N_venv,   "dir",     "ok",         0),    \*  1 venv/
    Entry(N_B,      "dir",     "ok",         0),    \*  2 B/
    Entry(N_b,      "dir",     "ok",         0),    \*  3 b/
    Entry(N_D,      "dir",     "denied",     0),    \*  4 D/
    Entry(N_a_py,   "file",    "ok",         0),    \*  5 a.py
    Entry(N_A_PY,   "file",    "unreadable", 0),    \*  6 A.PY
    Entry(N_n_md,   "file",    "ok",         0),    \*  7 n.md
    Entry(N_README, "file",    "ok",         0),    \*  8 README
    Entry(N_tree,   "file",    "ok",         0),    \*  9 tree.txt
    Entry(N_l_py,   "symlink", "ok",         0),    \* 10 l.py -> ...
    Entry(N_a_py,   "file",    "ok",         1),    \* 11 venv/a.py
    Entry(N_B,      "dir",     "ok",         1),    \* 12 venv/B/
    Entry(N_README, "file",    "ok",         12),   \* 13 venv/B/README
    Entry(N_a_py,   "file",    "ok",         2),    \* 14 B/a.py
    Entry(N_venv,   "dir",     "ok",         2),    \* 15 B/venv/
    Entry(N_a_py,   "file",    "ok",         15),   \* 16 B/venv/a.py
    Entry(N_b,      "dir",     "ok",         2),    \* 17 B/b/
    Entry(N_README, "file",    "ok",         17),   \* 18 B/b/README
    Entry(N_a_py,   "file",    "ok",         4),    \* 19 D/a.py
    Entry(N_README, "file",    "ok",         3),    \* 20 b/README
    Entry(N_n_md,   "dir",     "ok",         2),    \* 21 B/n.md/
    Entry(N_a_py,   "file",    "ok",         21),   \* 22 B/n.md/a.py
    Entry(N_venv,   "file",    "ok",         3),    \* 23 b/venv
    Entry(N_a_py,   "file",    "ok",         17) >> \* 24 B/b/a.py

UNodes == 1..Len(Universe)
Root == 0
\* The two files the tool writes, when they are new entries of the scanned
\* directory, and the place of an output file written outside of it.
TreeNode == Len(Universe) + 1
BundleNode == Len(Universe) + 2
Outside == Len(Universe) + 3

\* The scanned directories of at most k entries.
RECURSIVE Scenarios(_)
Scenarios(k) ==
    IF k = 0 THEN {{}}
    ELSE LET prev == Scenarios(k - 1)
         IN  prev \cup { S \cup {n} : <<S, n>> \in
                 { x \in prev \X UNodes :
                     /\ x[2] \notin x[1]
                     /\ Universe[x[2]].parent \in x[1] \cup {Root} } }

\* ------------------------------------------------------------------------
\* The options of a run (main, lines 159-166)
\* ------------------------------------------------------------------------
\* A slip: the names given with --exclude replace the built-in ones.
Excludes_UserOnly(user) == user

\* excludes = AUTO_EXCLUDES | parse_csv_set(args.exclude)
Excludes(user) == AUTO_EXCLUDES \cup user

Config(user_ex, globs, exts, names, out_dir) ==
    [user_excludes |-> user_ex,
     excludes |-> Excludes(user_ex), ignore_globs |-> globs,
     allowed_exts |-> exts, include_names |-> names,
     tree_name |-> N_tree, bundle_name |-> N_bundle, out_dir |-> out_dir]

\* The defaults of the command line, and a run with every option given:
\*   --exclude b --ignore "*.md,B/a*" --exts .py,.md --include-names README
Configs(out_dir) ==
    { Config({}, {}, DEFAULT_EXTS, {}, out_dir),
      Config({N_b}, {G_md, G_Ba}, {E_py, <<".", "m", "d">>}, {N_README}, out_dir) }

\* ------------------------------------------------------------------------
\* State
\* ------------------------------------------------------------------------
\* Where the output files are given: in the root (the tool is run from the
\* directory it scans), in the directory B of the scan, or outside the scan.
OutDirs(S) == {Root, Outside} \cup (S \cap {2})

VARIABLES
    fs,         \* the entries that exist: the scanned directory's content
    fs0,        \* what the scanned directory held before the first run
    cfg,        \* the options of the run
    pc,         \* where main is
    run,        \* 1: the first run, 2: the run that follows it
    stack,      \* the frames of _walk, the innermost last
    lines,      \* lines (build_tree_and_collect_files)
    collected,  \* collected: the selected files, each standing for its
                \* root-relative path
    bi,         \* write_bundle: the place in files of the loop
    treeFile,   \* the text written to tree_output
    bundleFile, \* the blocks written to bundle_output
    log,        \* every access to the filesystem a run makes, in order
    first,      \* what the first run wrote
    removals    \* directories removed by a concurrent actor so far

vars == <<fs, fs0, cfg, pc, run, stack, lines, collected, bi, treeFile, bundleFile,
          log, first, removals>>

\* Nothing written yet.
Nothing == [tree |-> <<>>, bundle |-> <<>>]

\* ------------------------------------------------------------------------
\* pathlib on the scanned directory
\* ------------------------------------------------------------------------
Kind(n) == IF n \in UNodes THEN Universe[n].kind ELSE "file"
Mode(n) == IF n \in UNodes THEN Universe[n].mode ELSE "ok"
Name(n) ==
    IF n \in UNodes THEN Universe[n].name
    ELSE IF n = TreeNode THEN cfg.tree_name ELSE cfg.bundle_name
Parent(n) == IF n \in UNodes THEN Universe[n].parent ELSE cfg.out_dir

is_symlink(n) == n \in fs /\ Kind(n) = "symlink"
is_dir(n) == n = Root \/ (n \in fs /\ Kind(n) = "dir")
is_file(n) == n \in fs /\ Kind(n) = "file"

\* p.relative_to(root), as its parts
RECURSIVE RelParts(_)
RelParts(n) ==
    IF Parent(n) = Root THEN <<Name(n)>>
    ELSE Append(RelParts(Parent(n)), Name(n))

\* The entries dir_path.iterdir() yields, in any order.
Children(d) == {n \in fs : Parent(n) = d}

\* ------------------------------------------------------------------------
\* matches_any_glob (lines 50-60)
\* ------------------------------------------------------------------------
\* A slip: only the bare name is tried against the patterns.
matches_any_glob_NameOnly(n, patterns) ==
    \E pat \in patterns : FnMatch(Name(n), pat)

matches_any_glob(n, patterns) ==
    \E pat \in patterns :
        \/ FnMatch(Name(n), pat)
        \/ FnMatch(AsPosix(RelParts(n)), pat)

\* ------------------------------------------------------------------------
\* _walk: listing a directory (lines 82-108)
\* ------------------------------------------------------------------------
\* key=lambda p: (p.is_file(), p.name.lower()), compared as tuples
KeyLess(a, b) ==
    \/ ~is_file(a) /\ is_file(b)
    \/ is_file(a) = is_file(b) /\ StrLess(Lower(Name(a)), Lower(Name(b)))

\* entries = sorted((p for p in dir_path.iterdir() if not p.is_symlink()),
\*                  key=...)
\* iterdir() yields the entries in an order the filesystem chooses, and
\* sorted() is stable: the results, over every order of the listing, are
\* the arrangements of the entries that are not symbolic links in which no
\* entry comes before one of a smaller key.  Entries of equal key come in
\* the order the listing had them, which is any.
RECURSIVE SortedListings(_)
SortedListings(S) ==
    IF S = {} THEN {<<>>}
    ELSE UNION { { <<x>> \o rest : rest \in SortedListings(S \ {x}) } :
                 x \in { y \in S : \A z \in S : ~KeyLess(z, y) } }

Entries(d) == SortedListings({p \in Children(d) : ~is_symlink(p)})

skip_names == {cfg.tree_name, cfg.bundle_name}

\* The filter of lines 94-108: whether p goes to visible.
Keeps(p) ==
    IF is_dir(p)
    THEN /\ Name(p) \notin cfg.excludes
         /\ ~matches_any_glob(p, cfg.ignore_globs)
    ELSE /\ Name(p) \notin skip_names
         /\ ~matches_any_glob(p, cfg.ignore_globs)

VisibleOf(entries) == SelectSeq(entries, Keeps)

\* ------------------------------------------------------------------------
\* Lines of the tree
\* ------------------------------------------------------------------------
MID == "|-- "
LAST == "+-- "
BAR == "|   "
BLANK == "    "
DENIED == "[permission denied]"
NOBRANCH == ""

\* A line is prefix + branch + display; "node" records the entry the line
\* was written for (the directory that could not be listed, for DENIED).
Line(prefix, branch, display, what, n) ==
    [prefix |-> prefix, branch |-> branch, display |-> display,
     what |-> what, node |-> n]

\* An access to the filesystem, as the log keeps it.
Listed(d, result, entries, visible) ==
    [op |-> "list", dir |-> d, result |-> result, entries |-> entries,
     visible |-> visible]
Opened(file) == [op |-> "open_w", file |-> file]
Read(p) == [op |-> "read", node |-> p]

\* What dir_path.iterdir() raises: FileNotFoundError for a directory that is
\* not there, PermissionError for one that may not be listed.
ListError(d) ==
    IF ~is_dir(d) THEN "FileNotFoundError"
    ELSE IF Mode(d) = "denied" THEN "PermissionError"
    ELSE "ok"

\* A slip: the two continuations are exchanged.
Continuation_Swapped(is_last) == IF is_last THEN BAR ELSE BLANK

\* lines 112, 113 and 118
IsLast(idx, visible) == idx = Len(visible)
Branch(is_last) == IF is_last THEN LAST ELSE MID
Continuation(is_last) == IF is_last THEN BLANK ELSE BAR

Frame(d, prefix) ==
    [dir |-> d, prefix |-> prefix, visible |-> <<>>, idx |-> 0,
     entered |-> FALSE]

\* The frames whose loop has ended return.
RECURSIVE Unwind(_)
Unwind(stk) ==
    IF stk = <<>> THEN stk
    ELSE LET f == stk[Len(stk)]
         IN  IF f.entered /\ f.idx >= Len(f.visible)
             THEN Unwind(SubSeq(stk, 1, Len(stk) - 1))
             ELSE stk

AfterWalk(stk) == IF stk = <<>> THEN "write_tree" ELSE "walk"

Top == stack[Len(stack)]
Below == SubSeq(stack, 1, Len(stack) - 1)

Init ==
    /\ fs \in Scenarios(MaxNodes)
    /\ fs0 = fs
    /\ \E d \in OutDirs(fs) : cfg \in Configs(d)
    /\ pc = "start"
    /\ run = 1
    /\ stack = <<>>
    /\ lines = <<>>
    /\ collected = <<>>
    /\ bi = 0
    /\ treeFile = <<>>
    /\ bundleFile = <<>>
    /\ log = <<>>
    /\ first = Nothing
    /\ removals = 0

\* lines 77-79, 124, and the call of _walk(root) of line 125
Start ==
    /\ pc = "start"
    /\ lines' = <<Line(<<>>, NOBRANCH, N_root \o <<"/">>, "root", Root)>>
    /\ collected' = <<>>
    /\ stack' = <<Frame(Root, <<>>)>>
    /\ pc' = "walk"
    /\ UNCHANGED <<fs, fs0, cfg, run, bi, treeFile, bundleFile, log, first, removals>>

\* A slip: PermissionError is not caught, and ends the run.
ListFails_Aborts ==
    /\ pc = "walk"
    /\ ~Top.entered
    /\ ListError(Top.dir) # "ok"
    /\ pc' = IF ListError(Top.dir) = "PermissionError" THEN "failed" ELSE AfterWalk(Unwind(Below))
    /\ stack' = IF ListError(Top.dir) = "PermissionError" THEN stack ELSE Unwind(Below)
    /\ log' = Append(log, Listed(Top.dir, ListError(Top.dir), <<>>, <<>>))
    /\ UNCHANGED <<fs, fs0, cfg, run, lines, collected, bi, treeFile, bundleFile, first, removals>>

\* A slip: one handler for both errors, which leaves the sentinel line for a
\* directory that is gone as well.
ListFails_OneHandler ==
    /\ pc = "walk"
    /\ ~Top.entered
    /\ ListError(Top.dir) # "ok"
    /\ lines' = Append(lines, Line(Top.prefix, LAST, DENIED, "denied", Top.dir))
    /\ log' = Append(log, Listed(Top.dir, ListError(Top.dir), <<>>, <<>>))
    /\ stack' = Unwind(Below)
    /\ pc' = AfterWalk(stack')
    /\ UNCHANGED <<fs, fs0, cfg, run, collected, bi, treeFile, bundleFile, first, removals>>

\* lines 82-91, the listing fails: PermissionError leaves the sentinel line,
\* FileNotFoundError nothing; _walk returns.
ListFails ==
    /\ pc = "walk"
    /\ ~Top.entered
    /\ ListError(Top.dir) # "ok"
    /\ lines' = IF ListError(Top.dir) = "PermissionError"
                THEN Append(lines, Line(Top.prefix, LAST, DENIED, "denied", Top.dir))
                ELSE lines
    /\ log' = Append(log, Listed(Top.dir, ListError(Top.dir), <<>>, <<>>))
    /\ stack' = Unwind(Below)
    /\ pc' = AfterWalk(stack')
    /\ UNCHANGED <<fs, fs0, cfg, run, collected, bi, treeFile, bundleFile, first, removals>>

\* lines 82-110: the directory is listed, sorted and filtered.
List ==
    /\ pc = "walk"
    /\ ~Top.entered
    /\ ListError(Top.dir) = "ok"
    /\ \E entries \in Entries(Top.dir) :
         LET f == [Top EXCEPT !.visible = VisibleOf(entries), !.entered = TRUE]
         IN  /\ log' = Append(log, Listed(Top.dir, "ok", entries, f.visible))
             /\ stack' = Unwind(Append(Below, f))
    /\ pc' = AfterWalk(stack')
    /\ UNCHANGED <<fs, fs0, cfg, run, lines, collected, bi, treeFile, bundleFile, first, removals>>

\* A slip: the extension is compared as it is written.
Selected_CaseSensitive(p) ==
    \/ Suffix(Name(p)) \in cfg.allowed_exts
    \/ Name(p) \in cfg.include_names

\* line 121: the file goes to the bundle
Selected(p) ==
    \/ Lower(Suffix(Name(p))) \in cfg.allowed_exts
    \/ Name(p) \in cfg.include_names

\* lines 111-122: one turn of the loop over visible
Emit ==
    /\ pc = "walk"
    /\ Top.entered
    /\ Top.idx < Len(Top.visible)
    /\ LET p == Top.visible[Top.idx + 1]
           is_last == IsLast(Top.idx + 1, Top.visible)
           branch == Branch(is_last)
           display == Name(p) \o (IF is_dir(p) THEN <<"/">> ELSE <<>>)
           f == [Top EXCEPT !.idx = Top.idx + 1]
       IN  /\ lines' = Append(lines, Line(Top.prefix, branch, display, "entry", p))
           /\ IF is_dir(p)
              THEN /\ stack' = Append(Append(Below, f),
                          Frame(p, Append(Top.prefix, Continuation(is_last))))
                   /\ collected' = collected
              ELSE /\ stack' = Unwind(Append(Below, f))
                   /\ collected' = IF Selected(p) THEN Append(collected, p)
                                   ELSE collected
    /\ pc' = AfterWalk(stack')
    /\ UNCHANGED <<fs, fs0, cfg, run, bi, treeFile, bundleFile, log, first, removals>>

\* ------------------------------------------------------------------------
\* The two output files
\* ------------------------------------------------------------------------
RuleWidth == 80
Rule == [i \in 1..RuleWidth |-> "="] \o <<"\n">>

\* prefix + branch + display
LineText(l) ==
    l.prefix \o (IF l.branch = NOBRANCH THEN <<>> ELSE <<l.branch>>)
             \o (IF l.what = "denied" THEN <<l.display>> ELSE l.display)

\* "\n".join(lines)
RECURSIVE JoinLines(_)
JoinLines(ls) ==
    IF ls = <<>> THEN <<>>
    ELSE IF Len(ls) = 1 THEN LineText(ls[1])
    ELSE LineText(ls[1]) \o <<"\n">> \o JoinLines(Tail(ls))

\* Opening an output file for writing creates it where it is given, unless
\* a file of that name is there already (it is truncated).
Created(n) ==
    IF /\ cfg.out_dir # Outside
       /\ ~\E m \in Children(cfg.out_dir) : Name(m) = Name(n)
    THEN {n} ELSE {}

\* The directory the output files are given in is there.
OutDirThere == cfg.out_dir = Outside \/ is_dir(cfg.out_dir)

\* line 127: tree_output.write_text("\n".join(lines)), and the return
WriteTree ==
    /\ pc = "write_tree"
    /\ OutDirThere
    /\ treeFile' = JoinLines(lines)
    /\ fs' = fs \cup Created(TreeNode)
    /\ log' = Append(log, Opened("tree"))
    /\ pc' = "open_bundle"
    /\ UNCHANGED <<fs0, cfg, run, stack, lines, collected, bi, bundleFile, first, removals>>

\* line 132: bundle_output.open("w")
OpenBundle ==
    /\ pc = "open_bundle"
    /\ OutDirThere
    /\ bundleFile' = <<>>
    /\ fs' = fs \cup Created(BundleNode)
    /\ log' = Append(log, Opened("bundle"))
    /\ bi' = 0
    /\ pc' = "bundle"
    /\ UNCHANGED <<fs0, cfg, run, stack, lines, collected, treeFile, first, removals>>

\* abs_path.read_text(...): the text of the file, or why it cannot be read
ReadText(p) ==
    IF p \notin fs THEN [ok |-> FALSE, value |-> "No such file or directory"]
    ELSE IF Kind(p) = "dir" THEN [ok |-> FALSE, value |-> "Is a directory"]
    ELSE IF Mode(p) # "ok" THEN [ok |-> FALSE, value |-> "Permission denied"]
    ELSE [ok |-> TRUE, value |-> p]

\* lines 135-144: what is written for one file
Block(p, r) ==
    [sep |-> "\n\n",
     rule1 |-> Rule,
     header |-> <<"FILE: ">> \o AsPosix(RelParts(p)) \o <<"\n">>,
     rule2 |-> Rule,
     body |-> IF r.ok THEN <<"text", r.value>>
              ELSE <<"[ERROR READING FILE: ", r.value, "]\n">>,
     node |-> p]

\* A slip: a file that cannot be read ends the loop.
BundleFile_StopsOnError ==
    /\ pc = "bundle"
    /\ bi < Len(collected)
    /\ LET p == collected[bi + 1]
       IN  /\ bundleFile' = Append(bundleFile, Block(p, ReadText(p)))
           /\ log' = Append(log, Read(p))
           /\ bi' = IF ReadText(p).ok THEN bi + 1 ELSE Len(collected)
    /\ UNCHANGED <<fs, fs0, cfg, pc, run, stack, lines, collected, treeFile, first, removals>>

\* A slip: the bundle is opened anew for every file.
BundleFile_Reopens ==
    /\ pc = "bundle"
    /\ bi < Len(collected)
    /\ LET p == collected[bi + 1]
       IN  /\ bundleFile' = Append(bundleFile, Block(p, ReadText(p)))
           /\ log' = Append(Append(log, Opened("bundle")), Read(p))
    /\ bi' = bi + 1
    /\ UNCHANGED <<fs, fs0, cfg, pc, run, stack, lines, collected, treeFile, first, removals>>

\* lines 133-144: one turn of the loop over files
BundleFile ==
    /\ pc = "bundle"
    /\ bi < Len(collected)
    /\ LET p == collected[bi + 1]
       IN  /\ bundleFile' = Append(bundleFile, Block(p, ReadText(p)))
           /\ log' = Append(log, Read(p))
    /\ bi' = bi + 1
    /\ UNCHANGED <<fs, fs0, cfg, pc, run, stack, lines, collected, treeFile, first, removals>>

\* the loop of write_bundle ends, the file is closed; main prints "Done."
CloseBundle ==
    /\ pc = "bundle"
    /\ bi = Len(collected)
    /\ pc' = "done"
    /\ UNCHANGED <<fs, fs0, cfg, run, stack, lines, collected, bi, treeFile, bundleFile,
                   log, first, removals>>

\* The tool is run again, with the same options, on what the first run left.
Rerun ==
    /\ pc = "done"
    /\ run = 1
    /\ first' = [tree |-> treeFile, bundle |-> bundleFile]
    /\ run' = 2
    /\ pc' = "start"
    /\ lines' = <<>>
    /\ collected' = <<>>
    /\ bi' = 0
    /\ log' = <<>>
    /\ UNCHANGED <<fs, fs0, cfg, stack, treeFile, bundleFile, removals>>

Next ==
    \/ Start \/ ListFails \/ List \/ Emit
    \/ WriteTree \/ OpenBundle \/ BundleFile \/ CloseBundle
    \/ Rerun

Spec == Init /\ [][Next]_vars

\* ------------------------------------------------------------------------
\* A concurrent actor
\* ------------------------------------------------------------------------
RECURSIVE Under(_, _)
\* n is d or beneath d
Under(n, d) ==
    IF n = d THEN TRUE
    ELSE IF n = Root \/ n = Outside THEN FALSE
    ELSE Under(Parent(n), d)

\* Another process removes a directory, and what it holds, after the
\* directory that holds it was listed and before it is listed itself.
Remove ==
    /\ pc = "walk"
    /\ removals < MaxRemovals
    /\ \E d \in fs :
         /\ Kind(d) = "dir"
         /\ \E i \in DOMAIN log : log[i].op = "list" /\ log[i].dir = Parent(d)
         /\ \A i \in DOMAIN log : log[i].op = "list" => log[i].dir # d
         /\ fs' = {n \in fs : ~Under(n, d)}
    /\ removals' = removals + 1
    /\ UNCHANGED <<fs0, cfg, pc, run, stack, lines, collected, bi, treeFile, bundleFile,
                   log, first>>

\* Opening an output file in a directory that is gone raises
\* FileNotFoundError, which nothing catches: the run ends there.
WriteFails ==
    /\ pc \in {"write_tree", "open_bundle"}
    /\ ~OutDirThere
    /\ pc' = "failed"
    /\ UNCHANGED <<fs, fs0, cfg, run, stack, lines, collected, bi, treeFile, bundleFile,
                   log, first, removals>>

NextRace ==
    \/ Start \/ ListFails \/ List \/ Emit
    \/ WriteTree \/ OpenBundle \/ BundleFile \/ CloseBundle
    \/ Remove \/ WriteFails

SpecRace == Init /\ [][NextRace]_vars

\* ========================================================================
\* Properties
\* ========================================================================
\* The current run has ended: both output files are written.
Finished == pc = "done"

\* The traversal of the current run has ended.
WalkDone == pc \in {"write_tree", "open_bundle", "bundle", "done"}

\* The directories between an entry and the root.
RECURSIVE Ancestors(_)
Ancestors(n) ==
    IF Parent(n) = Root THEN {}
    ELSE {Parent(n)} \cup Ancestors(Parent(n))

\* The entries from the root's own down to n.
RECURSIVE PathTo(_)
PathTo(n) ==
    IF Parent(n) = Root THEN <<n>> ELSE Append(PathTo(Parent(n)), n)

Depth(n) == Len(PathTo(n))

\* The lines written for entry n, and the sentinel lines written for it.
LinesOf(n) == {i \in DOMAIN lines : lines[i].what = "entry" /\ lines[i].node = n}
SentinelsOf(n) == {i \in DOMAIN lines : lines[i].what = "denied" /\ lines[i].node = n}
HasLine(n) == LinesOf(n) # {}
InList(n) == \E i \in DOMAIN collected : collected[i] = n
InBundle(n) == \E i \in DOMAIN bundleFile : bundleFile[i].node = n

\* The excluded set: the built-in names united with the user's.
ExcludedNames == AUTO_EXCLUDES \cup cfg.user_excludes

\* An entry is visible: it is no symbolic link, no directory of an excluded
\* name, neither its name nor its root-relative path matches an ignore glob,
\* and it is no file named as one of the two output files.
VisibleAsClaimed(n) ==
    /\ Kind(n) # "symlink"
    /\ ~(Kind(n) = "dir" /\ Name(n) \in ExcludedNames)
    /\ \A pat \in cfg.ignore_globs :
          /\ ~FnMatch(Name(n), pat)
          /\ ~FnMatch(AsPosix(RelParts(n)), pat)
    /\ ~(Kind(n) = "file" /\ Name(n) \in {cfg.tree_name, cfg.bundle_name})

\* ... and so is every directory between it and the root.
ShownAsClaimed(n) ==
    /\ VisibleAsClaimed(n)
    /\ \A a \in Ancestors(n) : VisibleAsClaimed(a)

\* Every directory between the entry and the root can be listed.
Reachable(n) == \A a \in Ancestors(n) : Mode(a) # "denied"

\* The entry's extension, lowercased, is allowed, or its name is one of the
\* names always included.
WantedAsClaimed(n) ==
    \/ Lower(Suffix(Name(n))) \in cfg.allowed_exts
    \/ Name(n) \in cfg.include_names

\* ------------------------------------------------------------------------
\* C1: no entry beneath a directory whose name is in the excluded set (the
\* built-in names united with the user's) has a line in the tree, is in the
\* selected list or has a block in the bundle, whatever its extension or
\* name, when a run has ended.
C1_ExcludedSubtreesAbsent ==
    Finished =>
        \A n \in fs :
            (\E a \in Ancestors(n) : Kind(a) = "dir" /\ Name(a) \in ExcludedNames)
            => /\ ~HasLine(n)
               /\ SentinelsOf(n) = {}
               /\ ~InList(n)
               /\ ~InBundle(n)

\* A run has ended on a directory that holds a file that would be selected
\* beneath a directory of a built-in excluded name, and another beneath a
\* directory of a name the user excluded.
C1_Witness ==
    /\ pc = "done"
    /\ \E n \in fs :
          /\ Kind(n) = "file" /\ WantedAsClaimed(n)
          /\ \E a \in Ancestors(n) : Name(a) \in AUTO_EXCLUDES
    /\ \E n \in fs :
          /\ Kind(n) = "file" /\ WantedAsClaimed(n)
          /\ \E a \in Ancestors(n) : Name(a) \in cfg.user_excludes

\* ------------------------------------------------------------------------
\* C8 as stated: an entry has a line iff it and every directory between it
\* and the root are visible; every directory is listed at most once.
C8_LineIffVisible ==
    Finished =>
        /\ \A n \in fs : HasLine(n) <=> ShownAsClaimed(n)
        /\ \A i, j \in DOMAIN log :
              (log[i].op = "list" /\ log[j].op = "list" /\ log[i].dir = log[j].dir)
              => i = j

\* C8 as amended: an entry has a line iff it and every directory between it
\* and the root are visible and every one of these directories can be
\* listed; no entry has two lines; symbolic links and ignored entries have
\* no line and give nothing to the bundle; every directory is listed at most
\* once.
C8_LineIffVisibleAndReachable ==
    Finished =>
        /\ \A n \in fs :
              /\ HasLine(n) <=> (ShownAsClaimed(n) /\ Reachable(n))
              /\ Cardinality(LinesOf(n)) <= 1
              /\ ~ShownAsClaimed(n) => ~InList(n) /\ ~InBundle(n)
        /\ \A i \in DOMAIN lines : lines[i].node = Root \/ lines[i].node \in fs
        /\ \A i, j \in DOMAIN log :
              (log[i].op = "list" /\ log[j].op = "list" /\ log[i].dir = log[j].dir)
              => i = j

\* A run has ended on a directory that holds an entry only its
\* root-relative path makes ignored, in a directory that has its line, and a
\* visible entry in a visible directory that cannot be listed.
C8_Witness ==
    /\ pc = "done"
    /\ \E n \in fs :
          /\ \A pat \in cfg.ignore_globs : ~FnMatch(Name(n), pat)
          /\ \E pat \in cfg.ignore_globs : FnMatch(AsPosix(RelParts(n)), pat)
          /\ \A a \in Ancestors(n) : HasLine(a)
    /\ \E n \in fs : ShownAsClaimed(n) /\ ~Reachable(n)

\* A run has ended on a directory that holds a symbolic link beside entries
\* that have their lines.
C8_SymlinkWitness ==
    /\ pc = "done"
    /\ \E n \in fs : Kind(n) = "symlink"
    /\ \E n \in fs : HasLine(n)

\* ------------------------------------------------------------------------
\* C2: the returned list holds exactly the files shown in the tree whose
\* lowercased extension is allowed or whose name is always included, each
\* once, in the order of the depth-first, pre-order traversal, which is the
\* order of their lines.
FirstLine(n) == CHOOSE i \in LinesOf(n) : TRUE

\* Directories before files, then by lowercased name: a does not come
\* after b.
NotAfterAsClaimed(a, b) ==
    \/ Kind(a) = "dir" /\ Kind(b) # "dir"
    \/ /\ (Kind(a) = "dir") = (Kind(b) = "dir")
       /\ ~StrLess(Lower(Name(b)), Lower(Name(a)))

\* Where the ways to x and y part: the two entries of one directory.
Fork(x, y) ==
    LET px == PathTo(x)
        py == PathTo(y)
        k == CHOOSE i \in 1..Len(px) :
                 /\ i <= Len(py)
                 /\ px[i] # py[i]
                 /\ \A j \in 1..(i-1) : px[j] = py[j]
    IN  <<px[k], py[k]>>

C2_SelectedExactlyInOrder ==
    Finished =>
        /\ \A n \in fs :
              InList(n) <=> /\ Kind(n) = "file"
                            /\ ShownAsClaimed(n) /\ Reachable(n)
                            /\ WantedAsClaimed(n)
        /\ \A i \in DOMAIN collected : collected[i] \in fs
        /\ \A i, j \in DOMAIN collected :
              i < j => /\ collected[i] # collected[j]
                       /\ FirstLine(collected[i]) < FirstLine(collected[j])
                       /\ LET f == Fork(collected[i], collected[j])
                          IN  NotAfterAsClaimed(f[1], f[2])

\* A run has ended that selected a file by its upper-case extension and one
\* by its name, left out a shown file, and selected files of two directories.
C2_Witness ==
    /\ pc = "done"
    /\ \E n \in fs : InList(n) /\ Suffix(Name(n)) \notin cfg.allowed_exts
                     /\ Lower(Suffix(Name(n))) \in cfg.allowed_exts
    /\ \E n \in fs : HasLine(n) /\ Kind(n) = "file" /\ ~InList(n)
    /\ \E i, j \in DOMAIN collected : Parent(collected[i]) # Parent(collected[j])

C2_NameWitness ==
    /\ pc = "done"
    /\ \E n \in fs : InList(n) /\ Name(n) \in cfg.include_names
                     /\ Lower(Suffix(Name(n))) \notin cfg.allowed_exts

\* ------------------------------------------------------------------------
\* The listings of the current run, as the log holds them.
Listings == {i \in DOMAIN log : log[i].op = "list"}
ListingOf(d) == CHOOSE i \in Listings : log[i].dir = d

\* C3, its first half: in every listing all directories come before all
\* files and, within each group, the names are in case-insensitive order.
C3_GroupedAndOrdered ==
    \A i \in Listings :
        \A a, b \in DOMAIN log[i].entries :
            a < b => NotAfterAsClaimed(log[i].entries[a], log[i].entries[b])

\* C3: within each directory the entries come directories first and, within
\* each group, in case-insensitive name order, and this order depends only
\* on the set of entries of the directory, not on the order in which the
\* filesystem lists them.
C3_OrderDeterministic ==
    pc = "walk" =>
        /\ C3_GroupedAndOrdered
        /\ \A i \in Listings :
              log[i].result = "ok" =>
                  \A other \in Entries(log[i].dir) : other = log[i].entries

\* No directory holds two entries of the same sort key.
NoTies ==
    \A a, b \in fs :
        (a # b /\ Parent(a) = Parent(b) /\ Kind(a) # "symlink" /\ Kind(b) # "symlink")
        => (KeyLess(a, b) \/ KeyLess(b, a))

\* ------------------------------------------------------------------------
\* A file that bears the name of one of the two output files.
OutputNamed(n) == Kind(n) = "file" /\ Name(n) \in {cfg.tree_name, cfg.bundle_name}

\* C4: the second of two successive runs with the same options writes the
\* same tree and the same bundle as the first; the files the first run wrote
\* have no line in the second run's tree and are not selected.
C4_Idempotent ==
    (pc = "done" /\ run = 2) =>
        /\ treeFile = first.tree
        /\ bundleFile = first.bundle
        /\ \A n \in fs : OutputNamed(n) => ~HasLine(n) /\ ~InList(n)

\* C4 where no directory holds two entries of one sort key.
C4_IdempotentWithoutTies == NoTies => C4_Idempotent

\* The second run has ended in a directory that holds both files the first
\* run wrote.
C4_SecondRunSeesOutputs ==
    /\ pc = "done" /\ run = 2
    /\ {TreeNode, BundleNode} \subseteq fs
    /\ Len(collected) > 0

\* ------------------------------------------------------------------------
\* C5: a directory that may not be listed leaves exactly one sentinel line,
\* right after its own line and one level deeper; nothing beneath it has a
\* line or is selected; the traversal goes on: every other entry that is to
\* be shown has its line, every file that is to be selected is selected, and
\* the run does not fail, and does not stop where the listing was denied and
\* the sentinel written: it goes on to the end, where the bundle holds a
\* block for every selected file.
DeniedVisited(d) ==
    /\ Kind(d) = "dir" /\ Mode(d) = "denied"
    /\ ShownAsClaimed(d) /\ Reachable(d)

C5_DeniedDirectory ==
    /\ pc # "failed"
    /\ (/\ log # <<>> /\ log[Len(log)].op = "list"
        /\ log[Len(log)].result = "PermissionError"
        /\ lines[Len(lines)].what = "denied"
        /\ pc = "walk")
          => ENABLED Next
    /\ Finished =>
        /\ \A d \in fs : DeniedVisited(d) =>
              /\ Cardinality(SentinelsOf(d)) = 1
              /\ Cardinality(LinesOf(d)) = 1
              /\ LET i == FirstLine(d)
                     k == CHOOSE k \in SentinelsOf(d) : TRUE
                 IN  /\ k = i + 1
                     /\ lines[k].branch = LAST
                     /\ lines[k].display = DENIED
                     /\ lines[k].prefix =
                          Append(lines[i].prefix,
                                 IF lines[i].branch = LAST THEN BLANK ELSE BAR)
              /\ \A n \in fs : d \in Ancestors(n) =>
                    ~HasLine(n) /\ ~InList(n) /\ SentinelsOf(n) = {}
        /\ \A i \in DOMAIN lines :
              lines[i].what = "denied" =>
                  lines[i].node \in fs /\ DeniedVisited(lines[i].node)
        /\ \A n \in fs :
              (ShownAsClaimed(n) /\ Reachable(n)) =>
                  /\ HasLine(n)
                  /\ (Kind(n) = "file" /\ WantedAsClaimed(n)) => InList(n)
        /\ Len(bundleFile) = Len(collected)

\* A run has ended in which a directory with something in it could not be
\* listed, and a file whose line comes after the sentinel was selected.
C5_Witness ==
    /\ pc = "done"
    /\ \E d \in fs :
          /\ DeniedVisited(d)
          /\ \E n \in fs : d \in Ancestors(n) /\ Kind(n) = "file" /\ WantedAsClaimed(n)
          /\ \E n \in fs : /\ InBundle(n)
                           /\ \E k \in SentinelsOf(d) : FirstLine(n) > k

\* ------------------------------------------------------------------------
\* C7: write_bundle reads every file of the list once, in the order of the
\* list; for each it writes a block: the rule of 80 "=", "FILE: " and the
\* root-relative path with forward slashes, the rule again, then the text of
\* the file or, when it cannot be read, the error marker with the reason.
\* A file that cannot be read does not end the bundle: there are as many
\* blocks as files.
ReadsLogged == SelectSeq(log, LAMBDA e : e.op = "read")

C7_OneBlockPerFile ==
    pc \in {"bundle", "done"} =>
        /\ Len(bundleFile) = bi
        /\ bi <= Len(collected)
        /\ pc = "done" => bi = Len(collected)
        /\ Len(ReadsLogged) = bi
        /\ \A i \in 1..bi :
              LET b == bundleFile[i]
                  n == collected[i]
                  readable == n \in fs /\ Kind(n) = "file" /\ Mode(n) = "ok"
              IN  /\ b.node = n
                  /\ ReadsLogged[i].node = n
                  /\ b.rule1 = b.rule2
                  /\ Len(b.rule1) = RuleWidth + 1
                  /\ \A k \in 1..RuleWidth : b.rule1[k] = "="
                  /\ b.rule1[RuleWidth + 1] = "\n"
                  /\ b.header = <<"FILE: ">> \o AsPosix(RelParts(n)) \o <<"\n">>
                  /\ readable => b.body = <<"text", n>>
                  /\ ~readable => /\ Len(b.body) = 3
                                  /\ b.body[1] = "[ERROR READING FILE: "
                                  /\ b.body[3] = "]\n"

\* A bundle has been written in which a file that could not be read is
\* followed by one that could, and which holds a file of a directory below
\* the root.
C7_Witness ==
    /\ pc = "done"
    /\ \E i, j \in DOMAIN bundleFile :
          /\ i < j
          /\ bundleFile[i].body[1] = "[ERROR READING FILE: "
          /\ bundleFile[j].body[1] = "text"
    /\ \E i \in DOMAIN bundleFile : Depth(bundleFile[i].node) > 1

\* ------------------------------------------------------------------------
\* C9: in every directory the last visible entry is drawn with the terminal
\* glyph and the visible entries before it with the mid glyph; the prefix of
\* an entry at depth d is d-1 segments of four columns, the k-th blank when
\* the entry's ancestor at depth k was the last visible entry of its
\* directory and the vertical bar otherwise.
C9_GlyphsAndPrefixes ==
    Finished =>
        /\ \A i \in Listings :
              \A x \in DOMAIN log[i].entries :
                  LET e == log[i].entries[x]
                  IN  (\E y \in DOMAIN log[i].visible : log[i].visible[y] = e)
                      <=> VisibleAsClaimed(e)
        /\ \A i \in DOMAIN lines :
              lines[i].what = "entry" =>
                  LET n == lines[i].node
                      v == log[ListingOf(Parent(n))].visible
                      path == PathTo(n)
                  IN  /\ lines[i].branch = (IF v[Len(v)] = n THEN LAST ELSE MID)
                      /\ (lines[i].branch = LAST) <=>
                            ~\E j \in DOMAIN lines :
                                /\ j > i /\ lines[j].what = "entry"
                                /\ Parent(lines[j].node) = Parent(n)
                      /\ Len(lines[i].branch) = 4
                      /\ Len(lines[i].prefix) = Depth(n) - 1
                      /\ \A k \in 1..(Depth(n) - 1) :
                            /\ Len(lines[i].prefix[k]) = 4
                            /\ lines[i].prefix[k] =
                                 (IF lines[FirstLine(path[k])].branch = LAST
                                  THEN BLANK ELSE BAR)

\* A tree has been drawn with an entry two directories deep, below one
\* directory that was not the last of its siblings and one that was, and in
\* which the terminal glyph went to an entry that is not the last of its
\* directory's listing.
C9_Witness ==
    /\ pc = "done"
    /\ \E i \in DOMAIN lines :
          /\ lines[i].what = "entry"
          /\ lines[i].prefix = <<BAR, BLANK>>
    /\ \E i \in Listings :
          /\ log[i].visible # <<>>
          /\ log[i].entries[Len(log[i].entries)] # log[i].visible[Len(log[i].visible)]

\* ------------------------------------------------------------------------
\* C10.  The places in the log where an output file is opened for writing,
\* where a directory is listed and where a selected file is read.
Opens(file) == {i \in DOMAIN log : log[i].op = "open_w" /\ log[i].file = file}
Reads == {i \in DOMAIN log : log[i].op = "read"}

\* Nothing of the scanned directory is changed but the two output files,
\* each opened for writing once in a run, one after the other, the tree
\* output only when the traversal has ended.
C10_OnlyOutputsOnceEach ==
    /\ fs0 \subseteq fs
    /\ (fs \ fs0) \subseteq {TreeNode, BundleNode}
    /\ (TreeNode \in fs /\ run = 1) => Opens("tree") # {}
    /\ (BundleNode \in fs /\ run = 1) => Opens("bundle") # {}
    /\ Cardinality(Opens("tree")) <= 1
    /\ Cardinality(Opens("bundle")) <= 1
    /\ pc = "done" => Opens("tree") # {} /\ Opens("bundle") # {}
    /\ \A i \in Opens("tree") :
          /\ \A j \in Listings : j < i
          /\ \A j \in Opens("bundle") : i < j
    /\ Opens("tree") # {} => (WalkDone /\ stack = <<>>)

\* C10 as stated: ... and the bundle output is opened only after the reading
\* of the selected files has ended.
C10_BundleOpenedAfterReading ==
    /\ C10_OnlyOutputsOnceEach
    /\ \A i \in Opens("bundle") : \A j \in Reads : j < i
    /\ Opens("bundle") # {} => Cardinality(Reads) = Len(collected)

\* C10 as amended: ... and the bundle output is opened after the tree output
\* has been written and before the first selected file is read; the selected
\* files are read while it is open.
C10_BundleOpenedBeforeReading ==
    /\ C10_OnlyOutputsOnceEach
    /\ \A i \in Opens("bundle") :
          /\ Opens("tree") # {}
          /\ \A j \in Reads : i < j
    /\ Reads # {} => Opens("bundle") # {}
    /\ pc = "done" => Cardinality(Reads) = Len(collected)

\* A run has ended that created both output files in the scanned directory
\* and read two selected files.
C10_Witness ==
    /\ pc = "done"
    /\ {TreeNode, BundleNode} \subseteq fs
    /\ Cardinality(Reads) >= 2

\* ------------------------------------------------------------------------
\* C6.  The directories whose listing raised FileNotFoundError.
Vanished == { log[i].dir : i \in {j \in Listings : log[j].result = "FileNotFoundError"} }

====
